---------------------------- MODULE Spec2Model ----------------------------
(***************************************************************************)
(* A model of the QAP result analysis scripts plots2.py and plots.py:     *)
(* the solution parser, the best-known lookup, the metrics derivation of  *)
(* analyze_qap_results, the chart functions and main of plots2.py.        *)
(*                                                                         *)
(* Text is a sequence of one-character strings.  A floating point value   *)
(* is a fraction [n, d]: d > 0 is the finite value n/d in lowest terms,   *)
(* 1/0 is +inf, -1/0 is -inf and 0/0 is NaN, with the IEEE rules pandas   *)
(* and numpy follow for them.  Rounding is not modelled.                  *)
(***************************************************************************)
EXTENDS Integers, Sequences, FiniteSets, TLC

VARIABLES
    pc,          \* position of the running script
    csv,         \* the input table on disk: a sequence of rows
    files,       \* instances/<name>.sln per instance: "absent" or a sequence of lines
    df,          \* the data frame of main
    lookups,     \* what load_optimal_solution returned, per instance asked
    best,        \* best_solution_fitness of analyze_qap_results
    console,     \* diagnostics printed by load_optimal_solution
    called,      \* the output functions main has called, in order
    error,       \* the exception that ended main, or "none"
    figures,     \* the files written to the output directory, with what was drawn
    deviation,   \* plots.py: the RelativeDeviation column, per instance
    tokens,      \* clean_solution: the tokens the string given was written from
    solution_str,\* clean_solution: the string given
    parsed,      \* clean_solution: what it returned
    reparsed     \* clean_solution of the re-encoded result

vars == <<pc, csv, files, df, lookups, best, console, called, error,
          figures, deviation, tokens, solution_str, parsed, reparsed>>

(***************************************************************************)
(* Bounds of the model.                                                    *)
(***************************************************************************)
MaxRows == 2
MaxTokens == 3
MaxLines == 2

(***************************************************************************)
(* Sequences.                                                              *)
(***************************************************************************)
RECURSIVE Unique(_)
Unique(s) ==
    IF s = <<>> THEN <<>>
    ELSE LET front == Unique(SubSeq(s, 1, Len(s) - 1))
             x == s[Len(s)]
         IN  IF \E k \in 1..Len(front) : front[k] = x THEN front
             ELSE Append(front, x)

RECURSIVE Flatten(_)
Flatten(ss) == IF ss = <<>> THEN <<>> ELSE Head(ss) \o Flatten(Tail(ss))

SeqsUpTo(S, n) == UNION {[1..k -> S] : k \in 0..n}

(***************************************************************************)
(* Text: str.strip, str.split and int.                                     *)
(***************************************************************************)
Whitespace == {" ", "\t", "\n"}
Digits == <<"0", "1", "2", "3", "4", "5", "6", "7", "8", "9">>
IsDigit(c) == \E k \in 1..10 : Digits[k] = c
DigitVal(c) == (CHOOSE k \in 1..10 : Digits[k] = c) - 1

RECURSIVE LStrip(_, _)
LStrip(s, chars) ==
    IF s # <<>> /\ Head(s) \in chars THEN LStrip(Tail(s), chars) ELSE s

RECURSIVE RStrip(_, _)
RStrip(s, chars) ==
    IF s # <<>> /\ s[Len(s)] \in chars
    THEN RStrip(SubSeq(s, 1, Len(s) - 1), chars) ELSE s

\* str.strip(chars): drops every leading and trailing character that is in chars
Strip(s, chars) == RStrip(LStrip(s, chars), chars)

\* str.split(): the maximal runs of non-whitespace characters
RECURSIVE SplitFrom(_, _, _)
SplitFrom(s, cur, acc) ==
    IF s = <<>> THEN (IF cur = <<>> THEN acc ELSE Append(acc, cur))
    ELSE IF Head(s) \in Whitespace
         THEN SplitFrom(Tail(s), <<>>, IF cur = <<>> THEN acc ELSE Append(acc, cur))
         ELSE SplitFrom(Tail(s), Append(cur, Head(s)), acc)

Split(s) == SplitFrom(s, <<>>, <<>>)

RECURSIVE DigitsValue(_, _)
DigitsValue(s, acc) ==
    IF s = <<>> THEN acc
    ELSE IF Head(s) = "_" THEN DigitsValue(Tail(s), acc)
         ELSE DigitsValue(Tail(s), 10 * acc + DigitVal(Head(s)))

\* int(x) of a token: an optional sign, then digits with single underscores
\* between them; anything else raises ValueError
IntLiteral(tok) ==
    LET signed == tok # <<>> /\ Head(tok) \in {"+", "-"}
        body == IF signed THEN Tail(tok) ELSE tok
        wellformed ==
            /\ body # <<>>
            /\ \A k \in 1..Len(body) : IsDigit(body[k]) \/ body[k] = "_"
            /\ IsDigit(body[1]) /\ IsDigit(body[Len(body)])
            /\ \A k \in 1..(Len(body) - 1) : ~(body[k] = "_" /\ body[k + 1] = "_")
    IN  IF ~wellformed THEN [ok |-> FALSE, val |-> 0]
        ELSE [ok |-> TRUE,
              val |-> IF signed /\ Head(tok) = "-" THEN 0 - DigitsValue(body, 0)
                      ELSE DigitsValue(body, 0)]

\* map(int, tokens): the values, or ValueError at the first bad token
IntsOf(toks) ==
    IF \E k \in 1..Len(toks) : ~IntLiteral(toks[k]).ok
    THEN [ok |-> FALSE, val |-> <<>>]
    ELSE [ok |-> TRUE, val |-> [k \in 1..Len(toks) |-> IntLiteral(toks[k]).val]]

\* a parser that keeps the first token only
clean_solution_first_only(s) ==
    LET toks == Split(Strip(s, {"[", "]"}))
    IN  IF toks = <<>> THEN [ok |-> TRUE, val |-> <<>>]
        ELSE IntsOf(<<toks[1]>>)

clean_solution(s) == IntsOf(Split(Strip(s, {"[", "]"})))

\* str(v) of an integer
RECURSIVE NatText(_)
NatText(n) ==
    IF n < 10 THEN <<Digits[n + 1]>>
    ELSE Append(NatText(n \div 10), Digits[(n % 10) + 1])

IntText(v) == IF v < 0 THEN <<"-">> \o NatText(0 - v) ELSE NatText(v)

RECURSIVE Join(_, _)
Join(ts, sep) ==
    IF ts = <<>> THEN <<>>
    ELSE IF Len(ts) = 1 THEN ts[1]
         ELSE ts[1] \o sep \o Join(Tail(ts), sep)

\* the bracketed text of a token sequence
Bracketed(ts, sep) == <<"[">> \o Join(ts, sep) \o <<"]">>

\* the textual encoding of a permutation, as the solver writes it: "[1 5 19]"
Encode(vals) == Bracketed([k \in 1..Len(vals) |-> IntText(vals[k])], <<" ">>)


(***************************************************************************)
(* Floating point values as fractions; d = 0 holds inf (n = 1), -inf       *)
(* (n = -1) and NaN (n = 0).                                               *)
(***************************************************************************)
Abs(x) == IF x < 0 THEN 0 - x ELSE x
Sgn(x) == IF x < 0 THEN 0 - 1 ELSE IF x > 0 THEN 1 ELSE 0

RECURSIVE Gcd(_, _)
Gcd(a, b) == IF b = 0 THEN a ELSE Gcd(b, a % b)

Frac(n, d) ==
    IF d = 0 THEN [n |-> Sgn(n), d |-> 0]
    ELSE LET g == Gcd(Abs(n), Abs(d))
         IN  [n |-> (Sgn(d) * n) \div g, d |-> Abs(d) \div g]

Fin(v) == [n |-> v, d |-> 1]
NaN == [n |-> 0, d |-> 0]

IsNaN(a) == a.d = 0 /\ a.n = 0
IsInf(a) == a.d = 0 /\ a.n # 0
IsFinite(a) == a.d # 0

FNeg(a) == [n |-> 0 - a.n, d |-> a.d]

FAdd(a, b) ==
    IF IsNaN(a) \/ IsNaN(b) THEN NaN
    ELSE IF IsInf(a) THEN (IF IsInf(b) /\ b.n # a.n THEN NaN ELSE a)
    ELSE IF IsInf(b) THEN b
    ELSE Frac(a.n * b.d + b.n * a.d, a.d * b.d)

FMul(a, b) == Frac(a.n * b.n, a.d * b.d)

\* float division as numpy does it: x/0 is inf, -inf or NaN, never an exception
FDiv(a, b) ==
    IF IsNaN(a) \/ IsNaN(b) THEN NaN
    ELSE IF IsInf(a) THEN (IF IsInf(b) THEN NaN ELSE IF b.n < 0 THEN FNeg(a) ELSE a)
    ELSE IF IsInf(b) THEN Fin(0)
    ELSE IF b.n = 0 THEN Frac(a.n, 0)
    ELSE Frac(a.n * b.d, a.d * b.n)

FLe(a, b) == IsFinite(a) /\ IsFinite(b) /\ a.n * b.d <= b.n * a.d

RECURSIVE FSum(_)
FSum(s) == IF s = <<>> THEN Fin(0) ELSE FAdd(Head(s), FSum(Tail(s)))

RECURSIVE DropNaN(_)
DropNaN(s) ==
    IF s = <<>> THEN <<>>
    ELSE IF IsNaN(Head(s)) THEN DropNaN(Tail(s))
         ELSE <<Head(s)>> \o DropNaN(Tail(s))

\* Series.mean(): NaN entries are skipped; NaN when nothing is left
Mean(s) ==
    LET kept == DropNaN(s)
    IN  IF kept = <<>> THEN NaN ELSE FDiv(FSum(kept), Fin(Len(kept)))

RECURSIVE IntMin(_)
IntMin(s) ==
    IF Len(s) = 1 THEN s[1]
    ELSE LET m == IntMin(Tail(s)) IN IF Head(s) < m THEN Head(s) ELSE m

RECURSIVE IntMax(_)
IntMax(s) ==
    IF Len(s) = 1 THEN s[1]
    ELSE LET m == IntMax(Tail(s)) IN IF Head(s) > m THEN Head(s) ELSE m

\* Series.min() of an integer column: NaN for an empty selection
SeriesMin(s) == IF s = <<>> THEN NaN ELSE Fin(IntMin(s))

(***************************************************************************)
(* The inputs: instance and solver names, the rows of the table, the      *)
(* best-known files.                                                       *)
(***************************************************************************)
\* names in lexicographic order, the order groupby sorts its keys in
InstanceOrder == <<"nug12", "tai20a">>
SolverOrder == <<"LocalSearch", "Random", "Tabu">>
Instances == {InstanceOrder[k] : k \in 1..Len(InstanceOrder)}
InstanceRank(i) == CHOOSE k \in 1..Len(InstanceOrder) : InstanceOrder[k] = i
SolverRank(s) == CHOOSE k \in 1..Len(SolverOrder) : SolverOrder[k] = s

\* the keys of the COLORS dictionary
COLORS == {"Random", "LocalSearch"}

GoodSolution == <<"[", "1", " ", "0", "]">>
BadSolution == <<"[", "1", " ", "x", "]">>

\* the numeric fields of the sample runs: an ordinary run, a run timed at
\* 0 ms, a run that started at fitness 0, and a run that stayed at fitness 0
Samples ==
    { [InitialFitness |-> 300, FinalFitness |-> 250, Evaluations |-> 1000, TimeMs |-> 50],
      [InitialFitness |-> 300, FinalFitness |-> 220, Evaluations |-> 2000, TimeMs |-> 0],
      [InitialFitness |-> 0, FinalFitness |-> 250, Evaluations |-> 0, TimeMs |-> 0],
      [InitialFitness |-> 0, FinalFitness |-> 0, Evaluations |-> 1000, TimeMs |-> 50] }

CsvRow(i, s, m, sol) ==
    [Instance |-> i, Solver |-> s, InitialFitness |-> m.InitialFitness,
     FinalFitness |-> m.FinalFitness, Evaluations |-> m.Evaluations,
     TimeMs |-> m.TimeMs, Solution |-> sol]

OrdinaryRun == [InitialFitness |-> 300, FinalFitness |-> 250, Evaluations |-> 1000,
                TimeMs |-> 50]

\* the rows a table is made of: every sample run of the two solvers that have
\* a colour, an ordinary run of a solver that has none, and a row whose
\* solution does not parse
CsvRows ==
    {CsvRow(i, s, m, GoodSolution) : i \in Instances, s \in COLORS, m \in Samples}
    \cup {CsvRow(i, "Tabu", OrdinaryRun, GoodSolution) : i \in Instances}
    \cup {CsvRow("nug12", "Random", OrdinaryRun, BadSolution)}

HeaderLine == <<"2", " ", "2", "0", "0", "\n">>
PermLine == <<"1", " ", "0", "\n">>
SampleLines ==
    { HeaderLine, PermLine, <<"\n">>, <<"2", " ", "x", "\n">>, <<"2", "\n">>,
      <<"2", " ", "2", "0", "0", " ", "7", "\n">> }

\* a file of the instances directory: missing, or its lines
Absent == [exists |-> FALSE, lines |-> <<>>]
FileOf(ls) == [exists |-> TRUE, lines |-> ls]
ValidFile == FileOf(<<HeaderLine, PermLine>>)

Column(d, c) == [k \in 1..Len(d) |-> d[k][c]]

\* the rows of an instance and a solver, in table order; "*" selects all
RECURSIVE Rows(_, _, _)
Rows(d, i, s) ==
    IF d = <<>> THEN <<>>
    ELSE IF (i = "*" \/ Head(d).Instance = i) /\ (s = "*" \/ Head(d).Solver = s)
         THEN <<Head(d)>> \o Rows(Tail(d), i, s)
         ELSE Rows(Tail(d), i, s)

(***************************************************************************)
(* load_optimal_solution                                                   *)
(***************************************************************************)
NotFound == [found |-> FALSE, fitness |-> 0, solution |-> <<>>]

\* the value returned (NotFound is None) and the lines printed
load_optimal_solution(name, file) ==
    IF ~file.exists
    THEN [result |-> NotFound, printed |-> <<<<"not found", name>>>>]
    ELSE IF Len(file.lines) < 2
    THEN [result |-> NotFound, printed |-> <<>>]
    ELSE LET header == IntsOf(Split(file.lines[1]))
             rest == [k \in 1..(Len(file.lines) - 1) |->
                         IntsOf(Split(file.lines[k + 1]))]
         IN  IF \/ ~header.ok
                \/ Len(header.val) # 2
                \/ \E k \in 1..Len(rest) : ~rest[k].ok
             THEN [result |-> NotFound,
                   printed |-> <<<<"error parsing", name>>>>]
             ELSE [result |-> [found |-> TRUE, fitness |-> header.val[2],
                               solution |-> Flatten([k \in 1..Len(rest) |-> rest[k].val])],
                   printed |-> <<>>]

(***************************************************************************)
(* analyze_qap_results                                                     *)
(***************************************************************************)
\* the loop over the instances: the lookups made, the lines printed, and
\* whether unpacking a None result raised TypeError
RECURSIVE LookupLoop(_, _)
LookupLoop(instances, fs) ==
    IF instances = <<>> THEN [asked |-> <<>>, printed |-> <<>>, raised |-> FALSE]
    ELSE LET i == Head(instances)
             r == load_optimal_solution(i, fs[i])
             one == <<[instance |-> i, result |-> r.result]>>
         IN  IF ~r.result.found
             THEN [asked |-> one, printed |-> r.printed, raised |-> TRUE]
             ELSE LET rest == LookupLoop(Tail(instances), fs)
                  IN  [asked |-> one \o rest.asked,
                       printed |-> r.printed \o rest.printed,
                       raised |-> rest.raised]

\* the gap taken relative to the final fitness instead of the optimum
GapToBest_over_final(final, optimal) ==
    FMul(FDiv(Fin(final - optimal), Fin(final)), Fin(100))

GapToBest(final, optimal) ==
    FMul(FDiv(Fin(final - optimal), Fin(optimal)), Fin(100))

ImprovementPercent(initial, final) ==
    FMul(FDiv(Fin(initial - final), Fin(initial)), Fin(100))

EvalsPerSecond(evaluations, time_ms) ==
    FDiv(Fin(evaluations), FDiv(Fin(time_ms), Fin(1000)))

\* the three columns analyze_qap_results adds to a row
Derived(row, bst) ==
    [Instance |-> row.Instance, Solver |-> row.Solver,
     InitialFitness |-> row.InitialFitness, FinalFitness |-> row.FinalFitness,
     Evaluations |-> row.Evaluations, TimeMs |-> row.TimeMs,
     Solution |-> row.Solution,
     GapToBest |-> GapToBest(row.FinalFitness, bst[row.Instance]),
     ImprovementPercent |-> ImprovementPercent(row.InitialFitness, row.FinalFitness),
     EvalsPerSecond |-> EvalsPerSecond(row.Evaluations, row.TimeMs)]

(***************************************************************************)
(* Aggregation and the chart functions.  A chart function gives the       *)
(* exception it raised ("none" when it returned) and the files it saved.  *)
(***************************************************************************)
IntColumns == {"InitialFitness", "FinalFitness", "Evaluations", "TimeMs"}

\* a column as floating point values
FloatColumn(d, c) ==
    [k \in 1..Len(d) |-> IF c \in IntColumns THEN Fin(d[k][c]) ELSE d[k][c]]

RECURSIVE SortedInstances(_)
SortedInstances(S) ==
    IF S = {} THEN <<>>
    ELSE LET m == CHOOSE x \in S : \A y \in S : InstanceRank(x) <= InstanceRank(y)
         IN  <<m>> \o SortedInstances(S \ {m})

FirstSeenInstances(d) == Unique(Column(d, "Instance"))

\* groupby(['Instance', 'Solver'])[c].mean() filtered to one solver: one value
\* per instance the solver has rows of, the instances in sorted order
SolverMeans(d, s, c) ==
    LET present == SortedInstances({d[k].Instance :
                                       k \in {j \in 1..Len(d) : d[j].Solver = s}})
    IN  [k \in 1..Len(present) |-> Mean(FloatColumn(Rows(d, present[k], s), c))]

\* plt.bar(x, height): numpy broadcasts the heights against the n positions
Broadcast(n, h) ==
    IF Len(h) = n THEN [ok |-> TRUE, heights |-> h]
    ELSE IF Len(h) = 1 THEN [ok |-> TRUE, heights |-> [k \in 1..n |-> h[1]]]
    ELSE IF n = 1 THEN [ok |-> TRUE, heights |-> h]
    ELSE [ok |-> FALSE, heights |-> <<>>]

\* the exception of the first solver whose bars cannot be drawn
RECURSIVE FirstBarFailure(_, _, _)
FirstBarFailure(solvers, d, c) ==
    IF solvers = <<>> THEN "none"
    ELSE IF Head(solvers) \notin COLORS THEN "KeyError"
    ELSE IF ~Broadcast(Len(FirstSeenInstances(d)), SolverMeans(d, Head(solvers), c)).ok
         THEN "ValueError"
    ELSE FirstBarFailure(Tail(solvers), d, c)

\* the grouped bars of column c: tick labels in first-seen order, and per
\* solver the heights drawn at the tick positions
GroupedBars(d, c) ==
    LET instances == FirstSeenInstances(d)
        solvers == Unique(Column(d, "Solver"))
        failure == FirstBarFailure(solvers, d, c)
    IN  [raised |-> failure,
         ticks |-> instances,
         bars |-> IF failure # "none" THEN <<>>
                  ELSE [k \in 1..Len(solvers) |->
                          [solver |-> solvers[k],
                           heights |-> Broadcast(Len(instances),
                                                 SolverMeans(d, solvers[k], c)).heights]]]

UnknownSolver(d) == \E k \in 1..Len(d) : d[k].Solver \notin COLORS

Saved(file, kind, data) == [file |-> file, kind |-> kind, data |-> data]

BarChart(file, g) == Saved(file, "bars", [ticks |-> g.ticks, bars |-> g.bars])

plot_gap_to_best(d) ==
    LET g == GroupedBars(d, "GapToBest")
    IN  [raised |-> g.raised,
         saved |-> IF g.raised # "none" THEN <<>>
                   ELSE <<BarChart(<<"gap_to_best.png">>, g)>>]

\* min-max normalization of value v of a column of the instance's rows
Normalized(v, col) ==
    IF IntMax(col) > IntMin(col)
    THEN FDiv(Fin(v - IntMin(col)), Fin(IntMax(col) - IntMin(col)))
    ELSE FDiv(Fin(v), Fin(IntMax(col)))

\* the points of the combined chart: per instance, per solver, per row
NormalizedPoints(d) ==
    LET instances == FirstSeenInstances(d)
        solvers == Unique(Column(d, "Solver"))
        ofInstance(i) ==
            LET idf == Rows(d, i, "*")
                ofSolver(s) ==
                    LET sdf == Rows(idf, "*", s)
                    IN  [k \in 1..Len(sdf) |->
                           [instance |-> i, solver |-> s,
                            x |-> Normalized(sdf[k].InitialFitness,
                                             Column(idf, "InitialFitness")),
                            y |-> Normalized(sdf[k].FinalFitness,
                                             Column(idf, "FinalFitness"))]]
            IN  Flatten([k \in 1..Len(solvers) |-> ofSolver(solvers[k])])
    IN  Flatten([k \in 1..Len(instances) |-> ofInstance(instances[k])])

plot_initial_vs_final(d) ==
    LET instances == FirstSeenInstances(d)
    IN  IF UnknownSolver(d) THEN [raised |-> "KeyError", saved |-> <<>>]
        ELSE [raised |-> "none",
              saved |-> [k \in 1..Len(instances) |->
                           Saved(<<"initial_vs_final_", instances[k], ".png">>,
                                 "scatter", <<>>)]
                        \o <<Saved(<<"initial_vs_final_normalized.png">>, "points",
                                   NormalizedPoints(d))>>]

\* best_by_solver: per solver one value per instance of best_solutions, NaN
\* where the solver has no row of the instance
plot_best_solutions(d, instances) ==
    LET solvers == Unique(Column(d, "Solver"))
        g == [ticks |-> instances,
              bars |-> [k \in 1..Len(solvers) |->
                          [solver |-> solvers[k],
                           heights |-> [j \in 1..Len(instances) |->
                               SeriesMin(Column(Rows(d, instances[j], solvers[k]),
                                                "FinalFitness"))]]]]
    IN  IF UnknownSolver(d) THEN [raised |-> "KeyError", saved |-> <<>>]
        ELSE [raised |-> "none", saved |-> <<BarChart(<<"best_solutions.png">>, g)>>]

plot_time_efficiency(d) ==
    LET eps == GroupedBars(d, "EvalsPerSecond")
        evs == GroupedBars(d, "Evaluations")
        tms == GroupedBars(d, "TimeMs")
        e == <<BarChart(<<"evaluations_per_second.png">>, eps)>>
        c == <<BarChart(<<"evaluations_count.png">>, evs)>>
        t == <<BarChart(<<"execution_time.png">>, tms)>>
    IN  IF eps.raised # "none" THEN [raised |-> eps.raised, saved |-> <<>>]
        ELSE IF evs.raised # "none" THEN [raised |-> evs.raised, saved |-> e]
        ELSE IF tms.raised # "none" THEN [raised |-> tms.raised, saved |-> e \o c]
        ELSE [raised |-> "none", saved |-> e \o c \o t]

plot_improvement_distribution(d) ==
    LET g == GroupedBars(d, "ImprovementPercent")
        density == <<Saved(<<"improvement_distribution.png">>, "density", <<>>)>>
    IN  IF UnknownSolver(d) THEN [raised |-> "KeyError", saved |-> <<>>]
        ELSE IF g.raised # "none" THEN [raised |-> g.raised, saved |-> density]
        ELSE [raised |-> "none",
              saved |-> density \o <<BarChart(<<"improvement_by_instance.png">>, g)>>]

RECURSIVE SortedSolvers(_)
SortedSolvers(S) ==
    IF S = {} THEN <<>>
    ELSE LET m == CHOOSE x \in S : \A y \in S : SolverRank(x) <= SolverRank(y)
         IN  <<m>> \o SortedSolvers(S \ {m})

\* the (instance, solver) groups that have rows, in sorted order
Groups(d) ==
    LET ofInstance(i) ==
            LET ss == SortedSolvers({r.Solver : r \in {d[k] : k \in {j \in 1..Len(d) :
                                                         d[j].Instance = i}}})
            IN  [k \in 1..Len(ss) |-> [Instance |-> i, Solver |-> ss[k]]]
        is == SortedInstances({d[k].Instance : k \in 1..Len(d)})
    IN  Flatten([k \in 1..Len(is) |-> ofInstance(is[k])])

SummaryRow(d, g) ==
    LET rows == Rows(d, g.Instance, g.Solver)
    IN  [Instance |-> g.Instance, Solver |-> g.Solver,
         InitialFitness_mean |-> Mean(FloatColumn(rows, "InitialFitness")),
         FinalFitness_mean |-> Mean(FloatColumn(rows, "FinalFitness")),
         FinalFitness_min |-> SeriesMin(Column(rows, "FinalFitness")),
         TimeMs_mean |-> Mean(FloatColumn(rows, "TimeMs")),
         Evaluations_mean |-> Mean(FloatColumn(rows, "Evaluations")),
         EvalsPerSecond_mean |-> Mean(FloatColumn(rows, "EvalsPerSecond")),
         ImprovementPercent_mean |-> Mean(FloatColumn(rows, "ImprovementPercent")),
         GapToBest_mean |-> Mean(FloatColumn(rows, "GapToBest"))]

create_summary_table(d) ==
    LET gs == Groups(d)
    IN  [raised |-> "none",
         saved |-> <<Saved(<<"summary_metrics.csv">>, "table",
                           [k \in 1..Len(gs) |-> SummaryRow(d, gs[k])])>>]

(***************************************************************************)
(* main of plots2.py.  A run starts at "main" with the table and the      *)
(* best-known files as they are on disk.                                   *)
(***************************************************************************)
NoError == [type |-> "none", where |-> "none"]
NoResult == [ok |-> FALSE, val |-> <<>>]
NoBest == [i \in {} |-> 0]

FileKinds == {Absent, ValidFile}

Tables == SeqsUpTo(CsvRows, MaxRows) \ {<<>>}

InitMain ==
    /\ pc = "main"
    /\ csv \in Tables
    /\ files \in [Instances -> FileKinds]
    /\ \A i \in Instances :
          (\A k \in 1..Len(csv) : csv[k].Instance # i) => files[i] = Absent
    /\ df = <<>>
    /\ lookups = <<>>
    /\ best = NoBest
    /\ console = <<>>
    /\ called = <<>>
    /\ error = NoError
    /\ figures = <<>>
    /\ deviation = <<>>
    /\ tokens = <<>>
    /\ solution_str = <<>>
    /\ parsed = NoResult
    /\ reparsed = NoResult

ParseVars == <<tokens, solution_str, parsed, reparsed>>

\* lines 329-333: read the table, make the output directory, parse the
\* Solution column
ReadAndClean ==
    /\ pc = "main"
    /\ LET cleaned == [k \in 1..Len(csv) |-> clean_solution(csv[k].Solution)]
       IN  IF \E k \in 1..Len(csv) : ~cleaned[k].ok
           THEN /\ df' = csv
                /\ pc' = "crashed"
                /\ error' = [type |-> "ValueError", where |-> "clean_solution"]
           ELSE /\ df' = [k \in 1..Len(csv) |->
                            [csv[k] EXCEPT !.Solution = cleaned[k].val]]
                /\ pc' = "cleaned"
                /\ error' = error
    /\ UNCHANGED <<csv, files, lookups, best, console, called, figures, deviation,
                   ParseVars>>

\* line 334
AnalyzeQapResults ==
    /\ pc = "cleaned"
    /\ LET loop == LookupLoop(FirstSeenInstances(df), files)
           found == {k \in 1..Len(loop.asked) : loop.asked[k].result.found}
           bst == [i \in {loop.asked[k].instance : k \in found} |->
                     (CHOOSE r \in {loop.asked[k] : k \in found} :
                         r.instance = i).result.fitness]
       IN  /\ lookups' = loop.asked
           /\ console' = console \o loop.printed
           /\ best' = bst
           /\ IF loop.raised
              THEN /\ pc' = "crashed"
                   /\ error' = [type |-> "TypeError", where |-> "analyze_qap_results"]
                   /\ df' = df
              ELSE /\ pc' = "analyzed"
                   /\ error' = error
                   /\ df' = [k \in 1..Len(df) |-> Derived(df[k], bst)]
    /\ UNCHANGED <<csv, files, called, figures, deviation, ParseVars>>

\* one output function called by main: what it saved is kept, and an
\* exception it raises ends main
Output(fn, from, to, r) ==
    /\ pc = from
    /\ called' = Append(called, fn)
    /\ figures' = figures \o r.saved
    /\ IF r.raised # "none"
       THEN pc' = "crashed" /\ error' = [type |-> r.raised, where |-> fn]
       ELSE pc' = to /\ error' = error
    /\ UNCHANGED <<csv, files, df, lookups, best, console, deviation, ParseVars>>

PlotGapToBest ==
    Output("plot_gap_to_best", "analyzed", "gap_to_best", plot_gap_to_best(df))

PlotInitialVsFinal ==
    Output("plot_initial_vs_final", "gap_to_best", "initial_vs_final",
           plot_initial_vs_final(df))

PlotBestSolutions ==
    Output("plot_best_solutions", "initial_vs_final", "best_solutions",
           plot_best_solutions(df, [k \in 1..Len(lookups) |-> lookups[k].instance]))

PlotTimeEfficiency ==
    Output("plot_time_efficiency", "best_solutions", "time_efficiency",
           plot_time_efficiency(df))

PlotImprovementDistribution ==
    Output("plot_improvement_distribution", "time_efficiency", "improvement",
           plot_improvement_distribution(df))

CreateSummaryTable ==
    Output("create_summary_table", "improvement", "done", create_summary_table(df))

(***************************************************************************)
(* main and analyze_results of plots.py, run on the same inputs.           *)
(***************************************************************************)
RelativeDeviation(final, optimal) ==
    FMul(FDiv(Fin(final - optimal), Fin(optimal)), Fin(100))

\* the loop over the instances: per instance the lookup, the lines printed,
\* the RelativeDeviation column when the lookup gave a result, the figure
RECURSIVE InstanceLoop(_, _, _)
InstanceLoop(instances, d, fs) ==
    IF instances = <<>>
    THEN [asked |-> <<>>, printed |-> <<>>, columns |-> <<>>, saved |-> <<>>]
    ELSE LET i == Head(instances)
             r == load_optimal_solution(i, fs[i])
             rows == Rows(d, i, "*")
             column == [instance |-> i, resolved |-> r.result.found,
                        values |-> IF r.result.found
                                   THEN [k \in 1..Len(rows) |->
                                           RelativeDeviation(rows[k].FinalFitness,
                                                             r.result.fitness)]
                                   ELSE <<>>]
             rest == InstanceLoop(Tail(instances), d, fs)
         IN  [asked |-> <<[instance |-> i, result |-> r.result]>> \o rest.asked,
              printed |-> r.printed \o rest.printed,
              columns |-> <<column>> \o rest.columns,
              saved |-> <<Saved(<<i, "_qap_analysis.png">>, "grid", <<>>)>>
                        \o rest.saved]

AnalyzeResults ==
    /\ pc = "main"
    /\ LET cleaned == [k \in 1..Len(csv) |-> clean_solution(csv[k].Solution)]
           d == [k \in 1..Len(csv) |-> [csv[k] EXCEPT !.Solution = cleaned[k].val]]
           loop == InstanceLoop(FirstSeenInstances(d), d, files)
       IN  IF \E k \in 1..Len(csv) : ~cleaned[k].ok
           THEN /\ pc' = "crashed"
                /\ error' = [type |-> "ValueError", where |-> "clean_solution"]
                /\ df' = csv
                /\ UNCHANGED <<lookups, console, deviation, figures>>
           ELSE /\ pc' = "plots_saved"
                /\ error' = error
                /\ df' = d
                /\ lookups' = loop.asked
                /\ console' = console \o loop.printed
                /\ deviation' = loop.columns
                /\ figures' = figures \o loop.saved
    /\ UNCHANGED <<csv, files, best, called, ParseVars>>

Next ==
    \/ ReadAndClean
    \/ AnalyzeQapResults
    \/ PlotGapToBest
    \/ PlotInitialVsFinal
    \/ PlotBestSolutions
    \/ PlotTimeEfficiency
    \/ PlotImprovementDistribution
    \/ CreateSummaryTable
    \/ AnalyzeResults

Spec == InitMain /\ [][Next]_vars

(***************************************************************************)
(* clean_solution on its own: a string written from a sequence of tokens, *)
(* parsed, and the result encoded and parsed again.                        *)
(***************************************************************************)
SampleTokens ==
    { <<"1">>, <<"1", "2">>, <<"-", "2">>, <<"0", "7">>, <<"x">>,
      <<"1", ".", "5">>, <<"]">>, <<"2", "]">>, <<"[">> }

Separators == {<<" ">>, <<"\t", " ">>}

Idle ==
    /\ csv = <<>>
    /\ df = <<>>
    /\ best = NoBest
    /\ called = <<>>
    /\ error = NoError
    /\ figures = <<>>
    /\ deviation = <<>>

InitParse ==
    /\ pc = "clean_solution"
    /\ tokens \in SeqsUpTo(SampleTokens, MaxTokens)
    /\ \E sep \in Separators : solution_str = Bracketed(tokens, sep)
    /\ parsed = NoResult
    /\ reparsed = NoResult
    /\ files = [i \in Instances |-> Absent]
    /\ lookups = <<>>
    /\ console = <<>>
    /\ Idle

MainVars == <<csv, files, df, lookups, best, console, called, error, figures,
              deviation>>

CleanSolution ==
    /\ pc = "clean_solution"
    /\ parsed' = clean_solution(solution_str)
    /\ pc' = "parsed"
    /\ UNCHANGED <<tokens, solution_str, reparsed, MainVars>>

Reparse ==
    /\ pc = "parsed"
    /\ parsed.ok
    /\ reparsed' = clean_solution(Encode(parsed.val))
    /\ pc' = "reparsed"
    /\ UNCHANGED <<tokens, solution_str, parsed, MainVars>>

NextParse == CleanSolution \/ Reparse

SpecParse == InitParse /\ [][NextParse]_vars

(***************************************************************************)
(* load_optimal_solution on its own: each instance looked up once, over   *)
(* files of every shape.                                                   *)
(***************************************************************************)
LookupFiles == {Absent} \cup {FileOf(ls) : ls \in SeqsUpTo(SampleLines, MaxLines)}

InitLookup ==
    /\ pc = "lookup"
    /\ files \in [Instances -> LookupFiles]
    /\ lookups = <<>>
    /\ console = <<>>
    /\ tokens = <<>>
    /\ solution_str = <<>>
    /\ parsed = NoResult
    /\ reparsed = NoResult
    /\ Idle

LoadOptimalSolution ==
    /\ pc = "lookup"
    /\ \E i \in Instances :
          /\ \A k \in 1..Len(lookups) : lookups[k].instance # i
          /\ LET r == load_optimal_solution(i, files[i])
             IN  /\ lookups' = Append(lookups, [instance |-> i, result |-> r.result])
                 /\ console' = console \o r.printed
    /\ UNCHANGED <<pc, csv, files, df, best, called, error, figures, deviation,
                   ParseVars>>

NextLookup == LoadOptimalSolution

SpecLookup == InitLookup /\ [][NextLookup]_vars

(***************************************************************************)
(* What the properties below speak of.                                     *)
(***************************************************************************)
\* analyze_qap_results has returned: the rows carry the derived columns
Analyzed == df # <<>> /\ "GapToBest" \in DOMAIN df[1]

WasCalled(fn) == \E k \in 1..Len(called) : called[k] = fn
SavedFiles == {figures[k].file : k \in 1..Len(figures)}
SavedAs(file) == {figures[k] : k \in {j \in 1..Len(figures) : figures[j].file = file}}

NotFoundAsked == \E k \in 1..Len(lookups) : ~lookups[k].result.found
NotFoundInstances ==
    {lookups[k].instance : k \in {j \in 1..Len(lookups) : ~lookups[j].result.found}}

NonGapFiles ==
    {<<"initial_vs_final_", df[k].Instance, ".png">> : k \in 1..Len(df)}
    \cup {<<"initial_vs_final_normalized.png">>, <<"best_solutions.png">>,
          <<"evaluations_per_second.png">>, <<"evaluations_count.png">>,
          <<"execution_time.png">>, <<"improvement_distribution.png">>,
          <<"improvement_by_instance.png">>, <<"summary_metrics.csv">>}

OutputSequence ==
    <<"plot_gap_to_best", "plot_initial_vs_final", "plot_best_solutions",
      "plot_time_efficiency", "plot_improvement_distribution",
      "create_summary_table">>

InUnitInterval(a) == FLe(Fin(0), a) /\ FLe(a, Fin(1))

\* every solver of the table has a row of every instance of the table
NoMissingPair ==
    \A j, k \in 1..Len(df) : Rows(df, df[j].Instance, df[k].Solver) # <<>>

\* the column a grouped-bar chart shows
ChartColumn(file) ==
    CASE file = <<"gap_to_best.png">> -> "GapToBest"
      [] file = <<"evaluations_per_second.png">> -> "EvalsPerSecond"
      [] file = <<"evaluations_count.png">> -> "Evaluations"
      [] file = <<"execution_time.png">> -> "TimeMs"
      [] file = <<"improvement_by_instance.png">> -> "ImprovementPercent"

GroupedBarFiles ==
    {<<"gap_to_best.png">>, <<"evaluations_per_second.png">>,
     <<"evaluations_count.png">>, <<"execution_time.png">>,
     <<"improvement_by_instance.png">>}

RECURSIVE PositiveInitial(_)
PositiveInitial(rows) ==
    IF rows = <<>> THEN <<>>
    ELSE IF Head(rows).InitialFitness > 0
         THEN <<Head(rows)>> \o PositiveInitial(Tail(rows))
         ELSE PositiveInitial(Tail(rows))

IsIntegerToken(t) ==
    LET body == IF t # <<>> /\ Head(t) \in {"+", "-"} THEN Tail(t) ELSE t
    IN  body # <<>> /\ \A k \in 1..Len(body) : IsDigit(body[k])

AllIntegerTokens == \A k \in 1..Len(tokens) : IsIntegerToken(tokens[k])

\* a token as it is left once the brackets at the two ends of the string
\* are stripped: the first token loses its leading brackets, the last its
\* trailing ones
Trimmed(k) ==
    LET t == tokens[k]
        l == IF k = 1 THEN LStrip(t, {"[", "]"}) ELSE t
    IN  IF k = Len(tokens) THEN RStrip(l, {"[", "]"}) ELSE l

(***************************************************************************)
(* The properties.                                                         *)
(***************************************************************************)
\* C1: when a best-known lookup returned not-found for an instance of the
\* table, main still ends normally, every output that does not show the gap
\* is written, and the gap of every row of that instance is undefined.
C1_MissingBestKnownTolerated ==
    (pc \in {"done", "crashed"} /\ NotFoundAsked) =>
        /\ pc = "done"
        /\ NonGapFiles \subseteq SavedFiles
        /\ \A k \in 1..Len(df) :
              df[k].Instance \in NotFoundInstances => IsNaN(df[k].GapToBest)

\* C2: when an output function of main raised, every later output function of
\* the sequence has still been called by the time main ends.
C2_ChartFailuresIsolated ==
    \A j \in 1..Len(OutputSequence) :
        (pc \in {"done", "crashed"} /\ error.where = OutputSequence[j]) =>
            \A m \in (j + 1)..Len(OutputSequence) : WasCalled(OutputSequence[m])

\* C3: the throughput of every row is a finite value that is not negative,
\* also for a row timed at 0 ms.
C3_ThroughputFinite ==
    Analyzed =>
        \A k \in 1..Len(df) :
            IsFinite(df[k].EvalsPerSecond) /\ FLe(Fin(0), df[k].EvalsPerSecond)

\* C4: a row with initial fitness 0 has the undefined value (NaN) as its
\* improvement percent, and the mean improvement of its group in the summary
\* table is the mean over the group's rows with initial fitness above 0.
C4_ZeroInitialUndefined ==
    Analyzed =>
        /\ \A k \in 1..Len(df) :
              df[k].InitialFitness = 0 => IsNaN(df[k].ImprovementPercent)
        /\ \A f \in SavedAs(<<"summary_metrics.csv">>) :
              \A k \in 1..Len(f.data) :
                  f.data[k].ImprovementPercent_mean =
                      Mean(FloatColumn(
                          PositiveInitial(Rows(df, f.data[k].Instance, f.data[k].Solver)),
                          "ImprovementPercent"))

\* C5: for every row whose instance resolved to an optimal value above 0, the
\* gap to best is (final - optimal) / optimal * 100 of the row's own final
\* fitness and its own instance's optimal value, in plots2.py (GapToBest) and
\* in plots.py (RelativeDeviation), and the fields the row was read with are
\* unchanged.
C5_GapToBestFormula ==
    /\ Analyzed =>
          \A k \in 1..Len(df) :
              /\ best[df[k].Instance] > 0 =>
                    df[k].GapToBest =
                        Frac((df[k].FinalFitness - best[df[k].Instance]) * 100,
                             best[df[k].Instance])
              /\ \A c \in {"Instance", "Solver", "InitialFitness", "FinalFitness",
                           "Evaluations", "TimeMs"} : df[k][c] = csv[k][c]
              /\ df[k].Solution = clean_solution(csv[k].Solution).val
    /\ \A j \in 1..Len(deviation) :
          (deviation[j].resolved /\ lookups[j].result.fitness > 0) =>
              LET rows == Rows(csv, deviation[j].instance, "*")
              IN  /\ Len(deviation[j].values) = Len(rows)
                  /\ \A k \in 1..Len(rows) :
                        deviation[j].values[k] =
                            Frac((rows[k].FinalFitness - lookups[j].result.fitness) * 100,
                                 lookups[j].result.fitness)

\* C5, its case: optimal 200 with finals 250 and 220 gives gaps 25 and 10.
C5_Witness ==
    /\ Analyzed
    /\ Len(df) = 2
    /\ df[1].Instance = df[2].Instance
    /\ best[df[1].Instance] = 200
    /\ df[1].FinalFitness = 250 /\ df[1].GapToBest = Fin(25)
    /\ df[2].FinalFitness = 220 /\ df[2].GapToBest = Fin(10)

C7_NotFoundIsLogged ==
    \A k \in 1..Len(lookups) :
        ~lookups[k].result.found =>
            \E m \in 1..Len(console) : console[m][2] = lookups[k].instance

\* C8: every point of the combined initial-vs-final chart has both normalized
\* coordinates finite and within [0, 1].
C8_NormalizedInUnitInterval ==
    \A f \in SavedAs(<<"initial_vs_final_normalized.png">>) :
        \A k \in 1..Len(f.data) :
            InUnitInterval(f.data[k].x) /\ InUnitInterval(f.data[k].y)

\* C9: once plot_gap_to_best has been called on a table whose solvers all
\* have a colour, the chart is saved, each solver's series has one slot per
\* tick, and the slot of an instance the solver has no row of holds no value.
C9_MissingPairIsGap ==
    (WasCalled("plot_gap_to_best") /\ ~UnknownSolver(df)) =>
        /\ SavedAs(<<"gap_to_best.png">>) # {}
        /\ \A f \in SavedAs(<<"gap_to_best.png">>) :
              \A b \in 1..Len(f.data.bars) :
                  /\ Len(f.data.bars[b].heights) = Len(f.data.ticks)
                  /\ \A j \in 1..Len(f.data.ticks) :
                        Rows(df, f.data.ticks[j], f.data.bars[b].solver) = <<>>
                            => IsNaN(f.data.bars[b].heights[j])

\* C10: in every grouped-bar chart of a table in which every solver has rows
\* of every instance, the k-th height of a solver is the mean of the rows of
\* that solver and of the instance named by the k-th tick label.
C10_BarsMatchTickLabels ==
    NoMissingPair =>
        \A f \in {figures[k] : k \in {j \in 1..Len(figures) :
                                         figures[j].file \in GroupedBarFiles}} :
            \A b \in 1..Len(f.data.bars) :
                \A j \in 1..Len(f.data.ticks) :
                    f.data.bars[b].heights[j] =
                        Mean(FloatColumn(Rows(df, f.data.ticks[j], f.data.bars[b].solver),
                                         ChartColumn(f.file)))

=============================================================================
